---- MODULE Spec2Model ----
(***************************************************************************)
(* A model of carbon_timeline.py: the CarbonTimeline pipeline that unpacks *)
(* a Google Maps Timeline export, extracts and normalises the activity     *)
(* segments, buckets them by month or year, computes kg CO2 per bucket and *)
(* prints the result.                                                      *)
(*                                                                         *)
(* Encodings.                                                              *)
(*  - A timestamp in milliseconds since 1970 is the record                 *)
(*    [sec |-> s, ms |-> r], standing for the integer 1000 * s + r with    *)
(*    0 <= r < 1000 (the integer itself is wider than TLC's integers).     *)
(*  - A datetime (always UTC, whole seconds) is its number of seconds      *)
(*    since 1970.                                                          *)
(*  - A formatted timestamp is the tuple of the numbers strftime prints:   *)
(*    <<year, month>> for "%Y-%m", <<year>> for "%Y" and                    *)
(*    <<year, month, day, hour, minute, second>> for the SECOND format.    *)
(*  - An OrderedDict is the sequence of its entries in insertion order,    *)
(*    each a record holding its key.                                       *)
(*  - A timeline object is a record whose keys field is the set of the    *)
(*    fields its activity segment has; an absent field holds a default.    *)
(***************************************************************************)
EXTENDS Integers, Sequences, FiniteSets

VARIABLES
    pc,                \* position of the run
    exc,               \* the exception that ended the run, or "none"
    takeout_ok,        \* whether the takeout file is a readable zip archive
    json_files,        \* the JSON files of the archive, in glob order
    resolution,        \* "MONTH" or "YEAR"
    debug,             \* the --debug flag
    temp_dir,          \* "none", "exists" or "removed"
    finalizer,         \* TRUE while the TemporaryDirectory's finalizer is alive
    json_file,         \* extract_activities: index of the next file to read
    activities,        \* extract_activities: the list being collected
    clean_activities,  \* the list extract_activities returned
    results,           \* bucketize: the OrderedDict of buckets
    current,           \* bucketize: start of the next period to seed
    last_timestamp,    \* bucketize: datetime of the last activity
    act,               \* bucketize: index of the next activity to sum up
    out                \* standard output: [header, rows]

vars == <<pc, exc, takeout_ok, json_files, resolution, debug, temp_dir,
          finalizer, json_file, activities, clean_activities, results,
          current, last_timestamp, act, out>>

(***************************************************************************)
(* Bounds of the model.                                                    *)
(***************************************************************************)
\* Longest list of activities handed to bucketize.
MaxActs == 3
\* Longest stream of input items (files and timeline objects) of an archive.
MaxItems == 3

(***************************************************************************)
(* Emission factors, in thousandths of a kg of CO2 per km, and the car     *)
(* occupancy in tenths.                                                    *)
(***************************************************************************)
ROAD_KG_CO2_PER_KM == 120
CAR_OCCUPANCY == 15
AIR_KG_CO2_PER_KM == 156
RAIL_KG_CO2_PER_KM == 6

(***************************************************************************)
(* The proleptic Gregorian calendar of datetime, UTC.                      *)
(***************************************************************************)
\* Days from 1970-01-01 to the civil date y-m-d.
days_from_civil(y, m, d) ==
    LET yy  == IF m <= 2 THEN y - 1 ELSE y
        era == yy \div 400
        yoe == yy - era * 400
        mp  == IF m > 2 THEN m - 3 ELSE m + 9
        doy == (153 * mp + 2) \div 5 + d - 1
        doe == yoe * 365 + yoe \div 4 - yoe \div 100 + doy
    IN  era * 146097 + doe - 719468

\* The civil date <<y, m, d>> of a number of days since 1970-01-01.
civil_from_days(z0) ==
    LET z   == z0 + 719468
        era == z \div 146097
        doe == z - era * 146097
        yoe == (doe - doe \div 1460 + doe \div 36524 - doe \div 146096) \div 365
        doy == doe - (365 * yoe + yoe \div 4 - yoe \div 100)
        mp  == (5 * doy + 2) \div 153
        d   == doy - (153 * mp + 2) \div 5 + 1
        m   == IF mp < 10 THEN mp + 3 ELSE mp - 9
        y   == yoe + era * 400 + (IF m <= 2 THEN 1 ELSE 0)
    IN  <<y, m, d>>

\* datetime(y, m, d, H, M, S, tzinfo=utc)
datetime(y, m, d, H, M, S) ==
    days_from_civil(y, m, d) * 86400 + H * 3600 + M * 60 + S

Year(t)   == civil_from_days(t \div 86400)[1]
Month(t)  == civil_from_days(t \div 86400)[2]
Day(t)    == civil_from_days(t \div 86400)[3]
Hour(t)   == (t % 86400) \div 3600
Minute(t) == (t % 3600) \div 60
Second(t) == t % 60

\* timestamp.replace(day=1, hour=0, minute=0, second=0, microsecond=0)
replace_day(t) == datetime(Year(t), Month(t), 1, 0, 0, 0)

\* timestamp.replace(day=1, month=1, hour=0, minute=0, second=0, microsecond=0)
replace_day_month(t) == datetime(Year(t), 1, 1, 0, 0, 0)

\* current + relativedelta(months=1), relativedelta(years=1)
relativedelta_months(t) ==
    IF Month(t) = 12
    THEN datetime(Year(t) + 1, 1, Day(t), Hour(t), Minute(t), Second(t))
    ELSE datetime(Year(t), Month(t) + 1, Day(t), Hour(t), Minute(t), Second(t))

relativedelta_years(t) ==
    datetime(Year(t) + 1, Month(t), Day(t), Hour(t), Minute(t), Second(t))

\* The millisecond timestamp of a civil date and time.
EpochMs(y, m, d, H, M, S, r) == [sec |-> datetime(y, m, d, H, M, S), ms |-> r]

\* int(a) < int(b) and int(a) <= int(b) on millisecond timestamps.
TsLess(a, b) == a.sec < b.sec \/ (a.sec = b.sec /\ a.ms < b.ms)
TsLeq(a, b)  == ~TsLess(b, a)

(***************************************************************************)
(* CarbonTimeline.parse_timestamp, print_timestamp                         *)
(***************************************************************************)
\* math.floor(epoch / 1000), then datetime.fromtimestamp(epoch, tz=utc)
parse_timestamp(epoch) == epoch.sec

print_timestamp(timestamp, res) ==
    CASE res = "MONTH"  -> <<Year(timestamp), Month(timestamp)>>
      [] res = "YEAR"   -> <<Year(timestamp)>>
      [] res = "SECOND" -> <<Year(timestamp), Month(timestamp), Day(timestamp),
                             Hour(timestamp), Minute(timestamp), Second(timestamp)>>

(***************************************************************************)
(* CarbonTimeline.categorize_activity, clean_fields, kg_co2                *)
(***************************************************************************)
\* Mutant of categorize_activity: "IN_VEHICLE" is missing from the road list.
categorize_activity_no_vehicle(activity) ==
    IF activity = "FLYING" THEN "AIR"
    ELSE IF activity \in {"IN_TAXI", "IN_PASSENGER_VEHICLE"} THEN "ROAD"
    ELSE IF activity \in {"IN_TRAIN", "IN_TRAM"} THEN "RAIL"
    ELSE "None"

categorize_activity(activity) ==
    IF activity = "FLYING" THEN "AIR"
    ELSE IF activity \in {"IN_TAXI", "IN_PASSENGER_VEHICLE", "IN_VEHICLE"} THEN "ROAD"
    ELSE IF activity \in {"IN_TRAIN", "IN_TRAM"} THEN "RAIL"
    ELSE "None"

NoActivity == [ts |-> [sec |-> 0, ms |-> 0], distance |-> 0, type |-> "None"]

\* The outcome of clean_fields on a timeline object that has an
\* "activitySegment": [tag |-> "clean", clean |-> the record], [tag |-> "None"]
\* or [tag |-> "KeyError"]. The object's keys field is the set of the fields
\* the segment has. The start timestamp is read first, before the tests for
\* "distance" and "activityType".
clean_fields(activity_segment) ==
    IF "startTimestampMs" \notin activity_segment.keys
    THEN [tag |-> "KeyError", clean |-> NoActivity]
    ELSE IF "distance" \notin activity_segment.keys
    THEN [tag |-> "None", clean |-> NoActivity]
    ELSE IF "activityType" \notin activity_segment.keys
    THEN [tag |-> "None", clean |-> NoActivity]
    ELSE IF categorize_activity(activity_segment.activityType) = "None"
    THEN [tag |-> "None", clean |-> NoActivity]
    ELSE [tag |-> "clean",
          clean |-> [ts |-> activity_segment.startTimestampMs,
                     distance |-> activity_segment.distance \div 1000,
                     type |-> categorize_activity(activity_segment.activityType)]]

\* Mutant of kg_co2: round(co2) in place of math.floor(co2).
kg_co2_round(distance, transportation) ==
    CASE transportation = "ROAD" ->
           (2 * distance * ROAD_KG_CO2_PER_KM * 10 + 1000 * CAR_OCCUPANCY)
             \div (2 * 1000 * CAR_OCCUPANCY)
      [] transportation = "AIR"  -> (distance * AIR_KG_CO2_PER_KM + 500) \div 1000
      [] transportation = "RAIL" -> (distance * RAIL_KG_CO2_PER_KM + 500) \div 1000
      [] OTHER -> 0

\* math.floor(co2): the factors are thousandths and the occupancy tenths, so
\* (distance * 0.120) / 1.5 is distance * 120 * 10 / (1000 * 15). The floating
\* point products floor to the same integers as the exact ones for every
\* distance from 0 to 2,000,000 km.
kg_co2(distance, transportation) ==
    CASE transportation = "ROAD" ->
           (distance * ROAD_KG_CO2_PER_KM * 10) \div (1000 * CAR_OCCUPANCY)
      [] transportation = "AIR"  -> (distance * AIR_KG_CO2_PER_KM) \div 1000
      [] transportation = "RAIL" -> (distance * RAIL_KG_CO2_PER_KM) \div 1000
      [] OTHER -> 0

(***************************************************************************)
(* CarbonTimeline.extract_activities                                       *)
(***************************************************************************)
\* The loop over json_list: each object with an "activitySegment" goes through
\* clean_fields; a KeyError leaves the loop with what was appended so far.
RECURSIVE clean_list(_, _)
clean_list(json_list, acc) ==
    IF json_list = <<>> THEN [raised |-> FALSE, acts |-> acc]
    ELSE LET my_dict == Head(json_list)
             clean   == clean_fields(my_dict)
         IN  IF my_dict.activitySegment = FALSE
             THEN clean_list(Tail(json_list), acc)
             ELSE IF clean.tag = "KeyError"
             THEN [raised |-> TRUE, acts |-> acc]
             ELSE IF clean.tag = "None"
             THEN clean_list(Tail(json_list), acc)
             ELSE clean_list(Tail(json_list), Append(acc, clean.clean))

\* Mutant of insert_by_ts: x goes in front of the elements of its own key, as
\* in a sort that is not stable.
RECURSIVE insert_by_ts_unstable(_, _)
insert_by_ts_unstable(sorted, x) ==
    IF sorted = <<>> THEN <<x>>
    ELSE IF TsLeq(x.ts, Head(sorted).ts) THEN <<x>> \o sorted
    ELSE <<Head(sorted)>> \o insert_by_ts_unstable(Tail(sorted), x)

\* list.sort(key=lambda x: int(x["ts"])) is stable: x goes behind every element
\* whose key is not greater.
RECURSIVE insert_by_ts(_, _)
insert_by_ts(sorted, x) ==
    IF sorted = <<>> THEN <<x>>
    ELSE IF TsLess(x.ts, Head(sorted).ts) THEN <<x>> \o sorted
    ELSE <<Head(sorted)>> \o insert_by_ts(Tail(sorted), x)

RECURSIVE sort_by_ts(_)
sort_by_ts(list) ==
    IF list = <<>> THEN <<>>
    ELSE insert_by_ts(sort_by_ts(SubSeq(list, 1, Len(list) - 1)), list[Len(list)])

\* One iteration of "for json_file in json_files": json.loads, then the loop
\* over the file's timelineObjects.
ReadFile ==
    /\ pc = "extract_activities"
    /\ json_file <= Len(json_files)
    /\ LET f == json_files[json_file]
           r == clean_list(f.timelineObjects, activities)
       IN  IF f.kind = "malformed"
           THEN /\ pc' = "raised"
                /\ exc' = "JSONDecodeError"
                /\ UNCHANGED <<json_file, activities>>
           ELSE IF f.kind = "no_timelineObjects"
           THEN /\ json_file' = json_file + 1
                /\ UNCHANGED <<pc, exc, activities>>
           ELSE /\ activities' = r.acts
                /\ IF r.raised
                   THEN /\ pc' = "raised"
                        /\ exc' = "KeyError"
                        /\ UNCHANGED json_file
                   ELSE /\ json_file' = json_file + 1
                        /\ UNCHANGED <<pc, exc>>
    /\ UNCHANGED <<takeout_ok, json_files, resolution, debug, temp_dir, finalizer,
                   clean_activities, results, current, last_timestamp, act, out>>

\* activities.sort(...); return activities; then the branch on debug.
SortActivities ==
    /\ pc = "extract_activities"
    /\ json_file > Len(json_files)
    /\ activities' = sort_by_ts(activities)
    /\ clean_activities' = activities'
    /\ pc' = IF debug THEN "print_csv_activities" ELSE "bucketize"
    /\ UNCHANGED <<exc, takeout_ok, json_files, resolution, debug, temp_dir,
                   finalizer, json_file, results, current, last_timestamp, act, out>>

(***************************************************************************)
(* CarbonTimeline.print_csv_activities                                     *)
(***************************************************************************)
RECURSIVE activity_rows(_)
activity_rows(list) ==
    IF list = <<>> THEN <<>>
    ELSE LET i == Head(list)
         IN  <<[ts |-> print_timestamp(parse_timestamp(i.ts), "SECOND"),
                epoch |-> i.ts, type |-> i.type, distance |-> i.distance]>>
             \o activity_rows(Tail(list))

PrintCsvActivities ==
    /\ pc = "print_csv_activities"
    /\ out' = [header |-> "ts, epoch, type, distance",
               rows |-> activity_rows(clean_activities)]
    /\ pc' = "cleanup"
    /\ UNCHANGED <<exc, takeout_ok, json_files, resolution, debug, temp_dir,
                   finalizer, json_file, activities, clean_activities, results,
                   current, last_timestamp, act>>

(***************************************************************************)
(* CarbonTimeline.bucketize                                                *)
(***************************************************************************)
empty_entry(key) ==
    [key |-> key, air_km |-> 0, road_km |-> 0, rail_km |-> 0,
     air_co2 |-> 0, road_co2 |-> 0, rail_co2 |-> 0]

has_key(dict, key) == \E i \in 1..Len(dict) : dict[i].key = key

\* dict[key] = value on an OrderedDict: an existing key keeps its place, a new
\* key goes to the end.
set_item(dict, value) ==
    IF has_key(dict, value.key)
    THEN [i \in 1..Len(dict) |-> IF dict[i].key = value.key THEN value ELSE dict[i]]
    ELSE Append(dict, value)

\* dict[key], for a key the dict has.
get_item(dict, key) ==
    dict[CHOOSE i \in 1..Len(dict) : dict[i].key = key]

\* The start of the period of the first activity.
first_period(list, res) ==
    IF res = "YEAR"
    THEN replace_day_month(parse_timestamp(list[1].ts))
    ELSE replace_day(parse_timestamp(list[1].ts))

\* Mutant of seeding: the loop runs on for 31 days past the last timestamp.
seeding_padded(cur, last) == cur < last + 31 * 86400

\* The condition of the loop that creates the empty entries.
seeding(cur, last) == cur < last

\* current += relativedelta(months=1) or relativedelta(years=1)
next_period(cur, res) ==
    IF res = "MONTH" THEN relativedelta_months(cur) ELSE relativedelta_years(cur)

\* Mutant of add_distance: the distance is assigned, not added.
add_distance_overwrite(result, a) ==
    [result EXCEPT
       !.air_km  = IF a.type = "AIR"  THEN a.distance ELSE @,
       !.road_km = IF a.type = "ROAD" THEN a.distance ELSE @,
       !.rail_km = IF a.type = "RAIL" THEN a.distance ELSE @]

\* The three "if act["type"] == ..." of the summing loop.
add_distance(result, a) ==
    [result EXCEPT
       !.air_km  = IF a.type = "AIR"  THEN @ + a.distance ELSE @,
       !.road_km = IF a.type = "ROAD" THEN @ + a.distance ELSE @,
       !.rail_km = IF a.type = "RAIL" THEN @ + a.distance ELSE @]

\* The body of the loop that computes the carbon footprint of a bucket.
with_co2(value) ==
    [value EXCEPT
       !.air_co2  = kg_co2(value.air_km, "AIR"),
       !.road_co2 = kg_co2(value.road_km, "ROAD"),
       !.rail_co2 = kg_co2(value.rail_km, "RAIL")]

\* Entry of bucketize: clean_activities[0] and clean_activities[-1].
BucketizeStart ==
    /\ pc = "bucketize"
    /\ IF clean_activities = <<>>
       THEN /\ pc' = "raised"
            /\ exc' = "IndexError"
            /\ UNCHANGED <<results, current, last_timestamp>>
       ELSE /\ results' = <<>>
            /\ current' = first_period(clean_activities, resolution)
            /\ last_timestamp' =
                 parse_timestamp(clean_activities[Len(clean_activities)].ts)
            /\ pc' = "seed"
            /\ UNCHANGED exc
    /\ UNCHANGED <<takeout_ok, json_files, resolution, debug, temp_dir, finalizer,
                   json_file, activities, clean_activities, act, out>>

\* One iteration of "while current < last_timestamp".
SeedStep ==
    /\ pc = "seed"
    /\ seeding(current, last_timestamp)
    /\ results' = set_item(results, empty_entry(print_timestamp(current, resolution)))
    /\ current' = next_period(current, resolution)
    /\ UNCHANGED <<pc, exc, takeout_ok, json_files, resolution, debug, temp_dir,
                   finalizer, json_file, activities, clean_activities,
                   last_timestamp, act, out>>

\* The while loop ends; the summing loop starts.
SeedDone ==
    /\ pc = "seed"
    /\ ~seeding(current, last_timestamp)
    /\ pc' = "sum"
    /\ act' = 1
    /\ UNCHANGED <<exc, takeout_ok, json_files, resolution, debug, temp_dir,
                   finalizer, json_file, activities, clean_activities, results,
                   current, last_timestamp, out>>

\* One iteration of "for act in clean_activities": results[short] raises
\* KeyError when the period of the activity has no entry.
SumStep ==
    /\ pc = "sum"
    /\ act <= Len(clean_activities)
    /\ LET a     == clean_activities[act]
           short == print_timestamp(parse_timestamp(a.ts), resolution)
       IN  IF has_key(results, short)
           THEN /\ results' = set_item(results, add_distance(get_item(results, short), a))
                /\ act' = act + 1
                /\ UNCHANGED <<pc, exc>>
           ELSE /\ pc' = "raised"
                /\ exc' = "KeyError"
                /\ UNCHANGED <<results, act>>
    /\ UNCHANGED <<takeout_ok, json_files, resolution, debug, temp_dir, finalizer,
                   json_file, activities, clean_activities, current,
                   last_timestamp, out>>

\* The loop over results.items() that fills in the co2 fields; return results.
ComputeCo2 ==
    /\ pc = "sum"
    /\ act > Len(clean_activities)
    /\ results' = [i \in 1..Len(results) |-> with_co2(results[i])]
    /\ pc' = "print_csv_bucketized_activities"
    /\ UNCHANGED <<exc, takeout_ok, json_files, resolution, debug, temp_dir,
                   finalizer, json_file, activities, clean_activities, current,
                   last_timestamp, act, out>>

(***************************************************************************)
(* CarbonTimeline.print_csv_bucketized_activities                          *)
(***************************************************************************)
PrintCsvBucketizedActivities ==
    /\ pc = "print_csv_bucketized_activities"
    /\ out' = [header |-> "date, air_km, road_km, rail_km, air_co2, road_co2, rail_co2",
               rows |-> results]
    /\ pc' = "cleanup"
    /\ UNCHANGED <<exc, takeout_ok, json_files, resolution, debug, temp_dir,
                   finalizer, json_file, activities, clean_activities, results,
                   current, last_timestamp, act>>

(***************************************************************************)
(* CarbonTimeline.__init__ and the end of the process                      *)
(***************************************************************************)
\* Mutant of TemporaryDirectory: tempfile.mkdtemp(), a directory that nothing
\* removes implicitly.
mkdtemp == [dir |-> "exists", finalizer |-> FALSE]

\* tempfile.TemporaryDirectory(): the directory exists, and the object holds a
\* finalizer that removes the directory when the object is collected or the
\* interpreter exits.
TemporaryDirectory == [dir |-> "exists", finalizer |-> TRUE]

CreateTempDir ==
    /\ pc = "init"
    /\ temp_dir' = TemporaryDirectory.dir
    /\ finalizer' = TemporaryDirectory.finalizer
    /\ pc' = "extractall"
    /\ UNCHANGED <<exc, takeout_ok, json_files, resolution, debug, json_file,
                   activities, clean_activities, results, current,
                   last_timestamp, act, out>>

\* zipfile.ZipFile(takeout_file), extractall, glob; extract_activities starts.
ExtractAll ==
    /\ pc = "extractall"
    /\ IF takeout_ok
       THEN /\ pc' = "extract_activities"
            /\ json_file' = 1
            /\ activities' = <<>>
            /\ UNCHANGED exc
       ELSE /\ pc' = "raised"
            /\ exc' = "BadZipFile"
            /\ UNCHANGED <<json_file, activities>>
    /\ UNCHANGED <<takeout_ok, json_files, resolution, debug, temp_dir, finalizer,
                   clean_activities, results, current, last_timestamp, act, out>>

\* temp_dir.cleanup(): removes the directory and detaches the finalizer;
\* __init__ returns.
Cleanup ==
    /\ pc = "cleanup"
    /\ temp_dir' = "removed"
    /\ finalizer' = FALSE
    /\ pc' = "returned"
    /\ UNCHANGED <<exc, takeout_ok, json_files, resolution, debug, json_file,
                   activities, clean_activities, results, current,
                   last_timestamp, act, out>>

\* main() has returned or the exception has left it: the interpreter exits and
\* runs the finalizers that are still alive.
Exit ==
    /\ pc \in {"returned", "raised"}
    /\ pc' = "exited"
    /\ temp_dir' = IF finalizer THEN "removed" ELSE temp_dir
    /\ finalizer' = FALSE
    /\ UNCHANGED <<exc, takeout_ok, json_files, resolution, debug, json_file,
                   activities, clean_activities, results, current,
                   last_timestamp, act, out>>

(***************************************************************************)
(* Inputs                                                                  *)
(***************************************************************************)
BoundedSeq(S, n) == UNION {[1..k -> S] : k \in 0..n}

\* A timeline object with an "activitySegment" that has the fields in keys.
Segment(keys, ts, distance, activityType) ==
    [activitySegment |-> TRUE, keys |-> keys, startTimestampMs |-> ts,
     distance |-> distance, activityType |-> activityType]

\* A timeline object without an "activitySegment", such as a place visit.
PlaceVisit ==
    [activitySegment |-> FALSE, keys |-> {}, startTimestampMs |-> NoActivity.ts,
     distance |-> 0, activityType |-> ""]

AllKeys == {"startTimestampMs", "distance", "activityType"}

\* The items of an archive, read in order: "malformed" is a file that is not
\* JSON, "no_timelineObjects" a JSON file without that key, "timelineObjects"
\* the start of a file with an empty list, and a timeline object goes to the
\* end of the list of the file before it (or starts a file of its own).
FileMarkers == {"malformed", "no_timelineObjects", "timelineObjects"}

Marker(kind) == [marker |-> kind, object |-> PlaceVisit]
Object(o)    == [marker |-> "", object |-> o]

RECURSIVE files_of(_, _)
files_of(stream, files) ==
    IF stream = <<>> THEN files
    ELSE LET item == Head(stream)
             n    == Len(files)
         IN  IF item.marker # ""
             THEN files_of(Tail(stream),
                           Append(files, [kind |-> item.marker, timelineObjects |-> <<>>]))
             ELSE IF n > 0 /\ files[n].kind = "timelineObjects"
             THEN files_of(Tail(stream),
                           [files EXCEPT ![n].timelineObjects = Append(@, item.object)])
             ELSE files_of(Tail(stream),
                           Append(files, [kind |-> "timelineObjects",
                                          timelineObjects |-> <<item.object>>]))

ActivityTypes ==
    {"FLYING", "IN_TAXI", "IN_PASSENGER_VEHICLE", "IN_VEHICLE", "IN_TRAIN",
     "IN_TRAM", "STILL", "WALKING"}

\* The timeline objects of the extraction runs.
ExtractObjects ==
    LET t1 == EpochMs(2021, 1, 5, 0, 0, 0, 0)
        t2 == EpochMs(2021, 3, 10, 0, 0, 0, 0)
    IN  {Segment(AllKeys, t2, 1999, a) : a \in ActivityTypes}
        \cup {Segment(AllKeys, t1, 100000, "FLYING"),
              Segment(AllKeys, t1, 1999, "IN_TRAIN"),
              Segment(AllKeys, t2, 500000, "FLYING")}
        \cup {Segment(AllKeys \ k, t1, 100000, "FLYING") :
                k \in {{"startTimestampMs"}, {"distance"}, {"activityType"},
                       {"startTimestampMs", "distance"}}}
        \cup {PlaceVisit}

\* The timeline objects of the whole runs.
RunObjects ==
    {Segment(AllKeys, EpochMs(2021, 1, 5, 0, 0, 0, 0), 100000, "IN_PASSENGER_VEHICLE"),
     Segment(AllKeys, EpochMs(2021, 3, 10, 0, 0, 0, 0), 500000, "FLYING"),
     Segment(AllKeys, EpochMs(2021, 4, 1, 0, 0, 0, 0), 7000, "IN_TRAIN"),
     Segment(AllKeys, EpochMs(2021, 2, 1, 12, 0, 0, 0), 3000, "STILL"),
     Segment(AllKeys \ {"startTimestampMs"}, NoActivity.ts, 100000, "FLYING")}

Archives(objects) ==
    {files_of(stream, <<>>) :
       stream \in BoundedSeq({Marker(k) : k \in FileMarkers}
                             \cup {Object(o) : o \in objects}, MaxItems)}

\* The normalised activities handed to bucketize: timestamps inside periods,
\* on the first second of a month and of a year, and in the last second before.
BucketTimestamps ==
    {EpochMs(2020, 12, 31, 23, 59, 59, 999),
     EpochMs(2021, 1, 1, 0, 0, 0, 0),
     EpochMs(2021, 1, 5, 0, 0, 0, 0),
     EpochMs(2021, 3, 1, 0, 0, 0, 999),
     EpochMs(2021, 3, 10, 0, 0, 0, 0)}

BucketActivities ==
    {[ts |-> t, distance |-> d, type |-> m] :
       t \in BucketTimestamps, d \in {7, 100}, m \in {"AIR", "ROAD", "RAIL"}}

is_sorted(list) ==
    \A i \in 1..(Len(list) - 1) : TsLeq(list[i].ts, list[i + 1].ts)

\* A JSON file whose segments normalise to the given activities.
file_of(list) ==
    [kind |-> "timelineObjects",
     timelineObjects |->
       [i \in 1..Len(list) |->
          Segment(AllKeys, list[i].ts, list[i].distance * 1000,
                  CASE list[i].type = "AIR"  -> "FLYING"
                    [] list[i].type = "ROAD" -> "IN_VEHICLE"
                    [] list[i].type = "RAIL" -> "IN_TRAIN")]]

NoOutput == [header |-> "", rows |-> <<>>]

(***************************************************************************)
(* Spec: a whole run, from CarbonTimeline(...) to the exit of the process. *)
(***************************************************************************)
Init ==
    /\ pc = "init"
    /\ exc = "none"
    /\ takeout_ok \in BOOLEAN
    /\ json_files \in Archives(RunObjects)
    /\ resolution \in {"MONTH", "YEAR"}
    /\ debug \in BOOLEAN
    /\ temp_dir = "none"
    /\ finalizer = FALSE
    /\ json_file = 1
    /\ activities = <<>>
    /\ clean_activities = <<>>
    /\ results = <<>>
    /\ current = 0
    /\ last_timestamp = 0
    /\ act = 1
    /\ out = NoOutput

Next ==
    \/ CreateTempDir
    \/ ExtractAll
    \/ ReadFile
    \/ SortActivities
    \/ PrintCsvActivities
    \/ BucketizeStart
    \/ SeedStep
    \/ SeedDone
    \/ SumStep
    \/ ComputeCo2
    \/ PrintCsvBucketizedActivities
    \/ Cleanup
    \/ Exit

Spec == Init /\ [][Next]_vars

(***************************************************************************)
(* SpecExtract: extract_activities on the files of an archive, followed by *)
(* the debug listing.                                                      *)
(***************************************************************************)
InitExtract ==
    /\ pc = "extract_activities"
    /\ exc = "none"
    /\ takeout_ok = TRUE
    /\ json_files \in Archives(ExtractObjects)
    /\ resolution = "MONTH"
    /\ debug = TRUE
    /\ temp_dir = "exists"
    /\ finalizer = TRUE
    /\ json_file = 1
    /\ activities = <<>>
    /\ clean_activities = <<>>
    /\ results = <<>>
    /\ current = 0
    /\ last_timestamp = 0
    /\ act = 1
    /\ out = NoOutput

NextExtract ==
    \/ ReadFile
    \/ SortActivities
    \/ PrintCsvActivities

SpecExtract == InitExtract /\ [][NextExtract]_vars

(***************************************************************************)
(* SpecBucketize: bucketize on a sorted list of normalised activities,     *)
(* followed by the listing of the buckets.                                 *)
(***************************************************************************)
InitBucketize ==
    /\ pc = "bucketize"
    /\ exc = "none"
    /\ takeout_ok = TRUE
    /\ clean_activities \in
         {l \in BoundedSeq(BucketActivities, MaxActs) : is_sorted(l)}
    /\ json_files = <<file_of(clean_activities)>>
    /\ resolution \in {"MONTH", "YEAR"}
    /\ debug = FALSE
    /\ temp_dir = "exists"
    /\ finalizer = TRUE
    /\ json_file = 2
    /\ activities = clean_activities
    /\ results = <<>>
    /\ current = 0
    /\ last_timestamp = 0
    /\ act = 1
    /\ out = NoOutput

NextBucketize ==
    \/ BucketizeStart
    \/ SeedStep
    \/ SeedDone
    \/ SumStep
    \/ ComputeCo2
    \/ PrintCsvBucketizedActivities

SpecBucketize == InitBucketize /\ [][NextBucketize]_vars

(***************************************************************************)
(* Properties                                                              *)
(***************************************************************************)
\* The period label of an activity at the resolution of the run.
PeriodOf(a) == print_timestamp(parse_timestamp(a.ts), resolution)

\* bucketize has returned its map (the listing of the buckets may have run).
BucketizeReturned == pc \in {"print_csv_bucketized_activities", "cleanup"}

\* extract_activities has returned its list (the listing may have run).
ExtractReturned == pc \in {"print_csv_activities", "cleanup"}

RECURSIVE SumKm(_, _)
SumKm(dict, mode) ==
    IF dict = <<>> THEN 0
    ELSE (CASE mode = "AIR"  -> Head(dict).air_km
            [] mode = "ROAD" -> Head(dict).road_km
            [] mode = "RAIL" -> Head(dict).rail_km)
         + SumKm(Tail(dict), mode)

RECURSIVE SumDistance(_, _)
SumDistance(list, mode) ==
    IF list = <<>> THEN 0
    ELSE (IF Head(list).type = mode THEN Head(list).distance ELSE 0)
         + SumDistance(Tail(list), mode)

\* C1: when the loop that creates the empty entries has finished, the period
\* label of every activity is a key of the map, so that the summing loop never
\* looks up an absent key, wherever the last timestamp lies in its period.
C1_KeysSeededBeforeSummation ==
    pc = "sum" =>
      \A i \in 1..Len(clean_activities) :
         has_key(results, PeriodOf(clean_activities[i]))

\* C2: in the map bucketize returns, the km of each mode summed over all
\* buckets are the distances of the input activities of that mode summed.
C2_DistancePreserved ==
    BucketizeReturned =>
      \A mode \in {"AIR", "ROAD", "RAIL"} :
         SumKm(results, mode) = SumDistance(clean_activities, mode)

\* Two activities of one mode in different periods, and one of another mode,
\* have been summed into the returned map.
C2_Witness ==
    /\ BucketizeReturned
    /\ Len(clean_activities) >= 2
    /\ \E i, j \in 1..Len(clean_activities) :
         /\ clean_activities[i].type = clean_activities[j].type
         /\ PeriodOf(clean_activities[i]) # PeriodOf(clean_activities[j])
    /\ \E i, j \in 1..Len(results) :
         i # j /\ results[i].air_km > 0 /\ results[j].air_km > 0

\* The number of a period label: months since year 0, or the year.
PeriodIndex(label) ==
    IF Len(label) = 2 THEN 12 * label[1] + label[2] - 1 ELSE label[1]

IsPeriodLabel(label) ==
    IF resolution = "MONTH"
    THEN Len(label) = 2 /\ label[2] \in 1..12
    ELSE Len(label) = 1

AllZero(b) ==
    /\ b.air_km = 0 /\ b.road_km = 0 /\ b.rail_km = 0
    /\ b.air_co2 = 0 /\ b.road_co2 = 0 /\ b.rail_co2 = 0

\* C3: the keys of the map bucketize returns are, in order, the consecutive
\* periods from the period of the earliest activity to the period of the
\* latest one, and a period without activity holds six zeros.
C3_ContiguousPeriods ==
    BucketizeReturned =>
      LET first == PeriodIndex(PeriodOf(clean_activities[1]))
          last  == PeriodIndex(PeriodOf(clean_activities[Len(clean_activities)]))
      IN  /\ Len(results) = last - first + 1
          /\ \A i \in 1..Len(results) :
               /\ IsPeriodLabel(results[i].key)
               /\ PeriodIndex(results[i].key) = first + i - 1
               /\ (\A k \in 1..Len(clean_activities) :
                      PeriodOf(clean_activities[k]) # results[i].key)
                  => AllZero(results[i])

\* A returned map of at least three months whose middle month is empty.
C3_Witness ==
    /\ BucketizeReturned
    /\ resolution = "MONTH"
    /\ Len(results) >= 3
    /\ AllZero(results[2])
    /\ ~AllZero(results[1])
    /\ ~AllZero(results[Len(results)])

\* C4: the temporary directory exists before the archive is extracted and
\* has been removed when the run has ended, whether __init__ returned or an
\* exception left it.
C4_TempDirRemoved ==
    /\ pc = "extractall" => temp_dir = "exists"
    /\ pc = "exited" => temp_dir = "removed"

\* A run that ended with an exception raised after the directory was created.
C4_Witness ==
    /\ pc = "exited"
    /\ exc \in {"BadZipFile", "JSONDecodeError", "KeyError", "IndexError"}
    /\ temp_dir = "removed"

\* C5: bucketize on an empty list of activities fails with EmptyInputError
\* and produces no bucket output.
C5_EmptyInputError ==
    (pc # "bucketize" /\ clean_activities = <<>>) =>
      /\ pc = "raised"
      /\ exc = "EmptyInputError"
      /\ results = <<>>
      /\ out = NoOutput

\* The activities of the files of the archive that parse, in encounter order.
RECURSIVE Collected(_)
Collected(files) ==
    IF files = <<>> THEN <<>>
    ELSE LET f == files[Len(files)]
         IN  clean_list(IF f.kind = "malformed" THEN <<>> ELSE f.timelineObjects,
                        Collected(SubSeq(files, 1, Len(files) - 1))).acts

AllTimelineObjects == UNION {{f.timelineObjects[i] : i \in 1..Len(f.timelineObjects)} :
                               f \in {json_files[k] : k \in 1..Len(json_files)}}

\* C6: a file that fails to parse is skipped: the extraction goes on to the
\* remaining files and returns the activities of the files that parse.
C6_MalformedFileSkipped ==
    (/\ \E k \in 1..Len(json_files) : json_files[k].kind = "malformed"
     /\ \A o \in AllTimelineObjects :
          o.activitySegment => "startTimestampMs" \in o.keys
     /\ pc # "extract_activities")
    => /\ ExtractReturned
       /\ exc = "none"
       /\ clean_activities = sort_by_ts(Collected(json_files))

\* C7: a segment that lacks one of its fields is dropped without raising:
\* the extraction of an archive whose files all parse returns.
C7_MissingFieldNeverRaises ==
    (/\ \A k \in 1..Len(json_files) : json_files[k].kind # "malformed"
     /\ pc # "extract_activities")
    => /\ ExtractReturned
       /\ exc = "none"

\* The timeline objects of all files, in encounter order.
RECURSIVE Flatten(_)
Flatten(files) ==
    IF files = <<>> THEN <<>>
    ELSE Head(files).timelineObjects \o Flatten(Tail(files))

\* The segments the normalization rule keeps, and the record of each.
Qualifies(o) ==
    /\ o.activitySegment
    /\ "distance" \in o.keys
    /\ "activityType" \in o.keys
    /\ o.activityType \in {"FLYING", "IN_TAXI", "IN_PASSENGER_VEHICLE",
                           "IN_VEHICLE", "IN_TRAIN", "IN_TRAM"}

ModeTable(activityType) ==
    CASE activityType = "FLYING" -> "AIR"
      [] activityType \in {"IN_TAXI", "IN_PASSENGER_VEHICLE", "IN_VEHICLE"} -> "ROAD"
      [] activityType \in {"IN_TRAIN", "IN_TRAM"} -> "RAIL"

IsRecordOf(r, o) ==
    /\ r.ts = o.startTimestampMs
    /\ r.type = ModeTable(o.activityType)
    /\ 1000 * r.distance <= o.distance
    /\ o.distance < 1000 * (r.distance + 1)

\* C8: the list extract_activities returns holds exactly one record for each
\* segment that has a distance and one of the six recognised activity types,
\* with the mode of the table and floor(meters / 1000) km, and no record for
\* any other segment; the debug listing has one row for each of them.
C8_ExactlyTheRecognisedSegments ==
    ExtractReturned =>
      LET objects == Flatten(json_files)
          kept    == {j \in 1..Len(objects) : Qualifies(objects[j])}
      IN  /\ Len(clean_activities) = Cardinality(kept)
          /\ \A i \in 1..Len(clean_activities) :
               LET r == clean_activities[i]
               IN  Cardinality({k \in 1..Len(clean_activities) : clean_activities[k] = r})
                   = Cardinality({j \in kept : IsRecordOf(r, objects[j])})
          /\ pc = "cleanup" => Len(out.rows) = Cardinality(kept)

\* A listing of two kept segments of different modes, next to a dropped one.
C8_Witness ==
    /\ pc = "cleanup"
    /\ Len(out.rows) = 2
    /\ out.rows[1].type # out.rows[2].type
    /\ \E o \in AllTimelineObjects : o.activitySegment /\ ~Qualifies(o)
    /\ \E o \in AllTimelineObjects : Qualifies(o) /\ o.distance = 1999

\* C9: the co2 fields of every bucket of the returned map are the emission of
\* the bucket's summed km, truncated, for each mode on its own; so they are 0
\* for 0 km and do not decrease when the km grow.
C9_Co2IsFloorOfSummedDistance ==
    BucketizeReturned =>
      /\ \A i \in 1..Len(results) :
           LET b == results[i]
           IN  /\ 1000 * b.air_co2 <= 156 * b.air_km
               /\ 156 * b.air_km < 1000 * (b.air_co2 + 1)
               /\ 1500 * b.road_co2 <= 120 * b.road_km
               /\ 120 * b.road_km < 1500 * (b.road_co2 + 1)
               /\ 1000 * b.rail_co2 <= 6 * b.rail_km
               /\ 6 * b.rail_km < 1000 * (b.rail_co2 + 1)
               /\ b.air_km = 0 => b.air_co2 = 0
               /\ b.road_km = 0 => b.road_co2 = 0
               /\ b.rail_km = 0 => b.rail_co2 = 0
      /\ \A i, j \in 1..Len(results) :
           /\ results[i].air_km <= results[j].air_km
                => results[i].air_co2 <= results[j].air_co2
           /\ results[i].road_km <= results[j].road_km
                => results[i].road_co2 <= results[j].road_co2
           /\ results[i].rail_km <= results[j].rail_km
                => results[i].rail_co2 <= results[j].rail_co2

\* A bucket of two road trips of 7 km: each alone truncates to 0 kg, the sum
\* of 14 km to 1 kg.
C9_Witness ==
    /\ BucketizeReturned
    /\ \E i \in 1..Len(results) : results[i].road_km = 14 /\ results[i].road_co2 = 1
    /\ \E i \in 1..Len(results) : results[i].air_km = 100 /\ results[i].air_co2 = 15

\* The elements of a list with a given timestamp, in the order of the list.
WithTs(list, t) ==
    LET Test(x) == x.ts = t
    IN  SelectSeq(list, Test)

\* C10: the list extract_activities returns is the collected records ordered
\* by timestamp, non-decreasing, records of one timestamp in the order they
\* were encountered; the debug listing has one row per record in that order.
C10_StableSortedListing ==
    ExtractReturned =>
      LET collected == Collected(json_files)
      IN  /\ Len(clean_activities) = Len(collected)
          /\ is_sorted(clean_activities)
          /\ \A i \in 1..Len(collected) :
               WithTs(clean_activities, collected[i].ts)
                 = WithTs(collected, collected[i].ts)
          /\ pc = "cleanup" =>
               /\ Len(out.rows) = Len(clean_activities)
               /\ \A i \in 1..Len(out.rows) :
                    /\ out.rows[i].epoch = clean_activities[i].ts
                    /\ out.rows[i].type = clean_activities[i].type
                    /\ out.rows[i].distance = clean_activities[i].distance

\* A listing in which the sort moved an earlier record in front of two
\* different records of one timestamp.
C10_Witness ==
    /\ pc = "cleanup"
    /\ Len(out.rows) = 3
    /\ clean_activities # Collected(json_files)
    /\ clean_activities[2].ts = clean_activities[3].ts
    /\ clean_activities[2] # clean_activities[3]

====
